---- MODULE Spec2Model ----
(***************************************************************************)
(* Model of 2025-10_airline_datenmodell/seed.ts: the seeding script that   *)
(* fills airports, planes, passengers and flights up to target counts.     *)
(*                                                                         *)
(* The store (the Prisma tables) persists across runs of the script; the   *)
(* script's own variables are reset by every run.  One action models one   *)
(* step of the script; the script is single-threaded, so the store's       *)
(* answers reach it only where it awaits.  A variable of a stage is reset  *)
(* when the next stage begins, where the script no longer reads it.        *)
(***************************************************************************)
EXTENDS Integers, Sequences, FiniteSets, TLC

\* ---------------------------------------------------------------- bounds
\* The Config constants of lines 20-23 are the inputs of the model: a run is
\* checked for every combination of targets in 0..Max*Target.
MaxAirportTarget == 2
MaxPlaneTarget == 2
MaxPassengerTarget == 3
MaxFlightTarget == 3
\* Number of distinct IATA codes the generator can produce.
NumCodes == 2

\* ------------------------------------------------- sizes of the source
\* Scaled down, keeping their order:
\*   MinPassengersPerFlight <= MinCapacity < MaxPassengersPerFlight < MaxCapacity
\*   (10 <= 80 < 200 < 400 in the source), and batch sizes smaller than the
\*   largest target, so that a stage can take more than one batch.
\* line 60: const passengerChunkSize = 2000
passengerChunkSize == 2
\* line 84: const flightsPerBatch = 50
flightsPerBatch == 2
\* line 99: faker.number.int({ min: 10, max: Math.min(200, plane.capacity) })
MinPassengersPerFlight == 2
MaxPassengersPerFlight == 3
\* line 52: faker.number.int({ min: 80, max: 400 })
MinCapacity == 2
MaxCapacity == 4

\* ------------------------------------------------------------- constants
planeModels ==
  <<"A320", "A321", "B737", "B777", "A330", "Embraer E195", "A350", "B787">>

IataCodes == 1..NumCodes
\* faker.number.int({ min: 80, max: 400 }): the two ends of the range, one
\* below and one above the cap on the passengers of a flight
Capacities == {MinCapacity, MaxCapacity}
FirstNames == {"Ann", "ann"}
LastNames == {"Lee"}

\* What sample() returns on an empty array: arr[0] of [] is undefined.
\* Ids generated by the store are positive, so 0 is no record's id.
UndefinedId == 0
UndefinedAirport == [id |-> UndefinedId, iataCode |-> 0]
UndefinedPlane == [id |-> UndefinedId, model |-> "", capacity |-> 0]

Max(a, b) == IF a >= b THEN a ELSE b
Min(a, b) == IF a <= b THEN a ELSE b

\* String.prototype.toLowerCase on the generated names.
toLowerCase(s) == IF s = "Ann" THEN "ann" ELSE IF s = "Lee" THEN "lee" ELSE s

\* `${firstName.toLowerCase()}.${lastName.toLowerCase()}.${index}@example.com`
\* The three dot-separated parts before the fixed suffix.
Email(firstName, lastName, index) ==
  <<toLowerCase(firstName), toLowerCase(lastName), index>>

Range(s) == {s[k] : k \in 1..Len(s)}

\* sample(arr): arr[Math.floor(Math.random() * arr.length)]; the set of values
\* it can return, given the set of the elements of arr.  undef is the value
\* standing for undefined.
sample(elements, undef) == IF elements = {} THEN {undef} ELSE elements

\* The row of the airport with the given code.  The id the store generates
\* is opaque and unique, and so is the code (findUnique of line 34 takes a
\* unique key): a row's id is named after its code.
AirportRow(code) == [id |-> code, iataCode |-> code]

\* Faulty variant of Deficit: the stage creates TARGET rows whatever the store
\* already holds.
DeficitIgnoringExisting(target, existing) == target

\* Math.max(0, TARGET - existing): the rows a stage sets out to create
\* (lines 28, 49, 62 and 83)
Deficit(target, existing) == Max(0, target - existing)

VARIABLES
  targets,      \* the Config constants of the script (lines 20-23)
  airports,     \* store: set of rows [id, iataCode]
  planes,       \* store: sequence of [model, capacity], the id is the position
  passengers,   \* store: sequence of emails, the id is the position
  flights,      \* store: number of flight rows
  inflight,     \* flight creates sent to the store and not yet answered
  prevDone,     \* the run before this one ran to "Seeding finished."
  pc,           \* position of the script
  opFailed,     \* a persistence call of this run has been rejected
  airportData,  \* line 27; read only by some() and sample(): a set
  existingAirportCount,  \* airportData.length when line 28 ran
  airportsToCreate,      \* line 28
  iata,                  \* lines 31 and 37
  planeData,    \* line 48
  existingPlaneCount,    \* planeData.length when line 49 ran
  planesToCreate,        \* line 49
  i,            \* the loop counter of lines 29, 50 and 88
  existingPassengerCount, passengersToCreate, start,   \* lines 61-63
  passengerIds, \* line 76
  existingFlightCount, flightsToCreate, batchStart, batchEnd,  \* lines 82-86
  ops,          \* line 87: the state of each promise of the batch
  origin, destination, plane, pCount, picked   \* lines 90-101

storeVars == <<airports, planes, passengers, flights>>
airportVars == <<airportData, existingAirportCount, airportsToCreate, iata>>
planeVars == <<planeData, existingPlaneCount, planesToCreate>>
passengerVars == <<existingPassengerCount, passengersToCreate, start, passengerIds>>
batchVars == <<existingFlightCount, flightsToCreate, batchStart, batchEnd, ops>>
flightVars == <<origin, destination, plane, pCount, picked>>
runVars == <<targets, prevDone>>

vars == <<targets, airports, planes, passengers, flights, inflight,
          prevDone, pc, opFailed, airportData, existingAirportCount,
          airportsToCreate, iata, planeData, existingPlaneCount, planesToCreate, i,
          existingPassengerCount, passengersToCreate, start, passengerIds,
          existingFlightCount, flightsToCreate, batchStart, batchEnd, ops,
          origin, destination, plane, pCount, picked>>

\* The script's variables before line 26 has run.
FreshLocals ==
  /\ airportData = {} /\ existingAirportCount = 0 /\ airportsToCreate = 0
  /\ iata = 0
  /\ planeData = <<>> /\ existingPlaneCount = 0 /\ planesToCreate = 0
  /\ i = 0
  /\ existingPassengerCount = 0 /\ passengersToCreate = 0 /\ start = 0
  /\ passengerIds = <<>>
  /\ existingFlightCount = 0 /\ flightsToCreate = 0
  /\ batchStart = 0 /\ batchEnd = 0 /\ ops = <<>>
  /\ origin = UndefinedAirport /\ destination = UndefinedAirport
  /\ plane = UndefinedPlane /\ pCount = 0 /\ picked = <<>>

Init ==
  /\ targets \in [AIRPORT_COUNT : 0..MaxAirportTarget,
                  PLANE_COUNT : 0..MaxPlaneTarget,
                  PASSENGER_COUNT : 0..MaxPassengerTarget,
                  FLIGHT_COUNT : 0..MaxFlightTarget]
  /\ airports = {} /\ planes = <<>> /\ passengers = <<>> /\ flights = 0
  /\ inflight = {}
  /\ prevDone = FALSE
  /\ pc = "airports" /\ opFailed = FALSE
  /\ FreshLocals

\* ------------------------------------------------------------ 1) Airports
\* lines 26-28: findMany, airportsToCreate; line 29-31 enters the loop and
\* draws the first candidate when there is a deficit.
AirportFind ==
  /\ pc = "airports"
  /\ airportData' = airports
  /\ existingAirportCount' = Cardinality(airports)
  /\ airportsToCreate' = Deficit(targets.AIRPORT_COUNT, Cardinality(airports))
  /\ i' = 0
  /\ IF airportsToCreate' > 0
       THEN /\ iata' \in IataCodes
            /\ pc' = "airportCheck"
       ELSE /\ iata' = 0
            /\ pc' = "planes"
  /\ UNCHANGED <<storeVars, inflight, runVars, opFailed, planeVars,
                 passengerVars, batchVars, flightVars>>

\* airportData.some((a) => a.iataCode === iata)
KnownInMemory(code) == \E a \in airportData : a.iataCode = code
\* (await prisma.airport.findUnique({ where: { iataCode } })) !== null
FoundInStore(code) == \E a \in airports : a.iataCode = code
\* Faulty variant of Collides: the candidate is never checked.
NeverCollides(code) == FALSE

\* the condition of the while loop of lines 32-35
Collides(code) == KnownInMemory(code) \/ FoundInStore(code)

\* lines 32-38: one evaluation of the loop condition; on a collision draw a
\* new candidate, otherwise leave the loop.
AirportCheck ==
  /\ pc = "airportCheck"
  /\ IF Collides(iata)
       THEN /\ iata' \in IataCodes
            /\ pc' = "airportCheck"
       ELSE /\ iata' = iata
            /\ pc' = "airportCreate"
  /\ UNCHANGED <<storeVars, inflight, runVars, opFailed, airportData,
                 existingAirportCount, airportsToCreate, planeVars, i,
                 passengerVars, batchVars, flightVars>>

\* lines 39-40 and the loop header of line 29: the create (iataCode is a
\* unique key of the table, so the store rejects a duplicate), the push and
\* i++, then either the next candidate or the end of the stage.
AirportCreate ==
  /\ pc = "airportCreate"
  /\ IF FoundInStore(iata)
       THEN /\ pc' = "failed"
            /\ opFailed' = TRUE
            /\ UNCHANGED <<airports, airportData, i, iata>>
       ELSE /\ airports' = airports \cup {AirportRow(iata)}
            /\ airportData' = airportData \cup {AirportRow(iata)}
            /\ i' = i + 1
            /\ opFailed' = opFailed
            /\ IF i + 1 < airportsToCreate
                 THEN /\ iata' \in IataCodes
                      /\ pc' = "airportCheck"
                 ELSE /\ iata' = 0
                      /\ pc' = "planes"
  /\ UNCHANGED <<planes, passengers, flights, inflight, runVars,
                 existingAirportCount, airportsToCreate, planeVars,
                 passengerVars, batchVars, flightVars>>

\* -------------------------------------------------------------- 2) Planes
\* lines 47-49
PlaneFind ==
  /\ pc = "planes"
  /\ planeData' = [k \in 1..Len(planes) |->
                     [id |-> k, model |-> planes[k].model,
                      capacity |-> planes[k].capacity]]
  /\ existingPlaneCount' = Len(planes)
  /\ planesToCreate' = Deficit(targets.PLANE_COUNT, Len(planes))
  /\ i' = 0
  /\ pc' = IF planesToCreate' > 0 THEN "planeCreate" ELSE "passengers"
  /\ existingAirportCount' = 0 /\ airportsToCreate' = 0
  /\ UNCHANGED <<storeVars, inflight, runVars, opFailed, airportData, iata,
                 passengerVars, batchVars, flightVars>>

\* line 51: planeModels[(planeData.length + i) % planeModels.length], with
\* planeData the list the loop itself appends to (0-based index).
PlaneModelIndex(data, k) == (Len(data) + k) % Len(planeModels)

\* lines 50-55: one iteration of the loop
PlaneCreate ==
  /\ pc = "planeCreate"
  /\ \E capacity \in Capacities :
       LET model == planeModels[PlaneModelIndex(planeData, i) + 1] IN
       /\ planes' = Append(planes, [model |-> model, capacity |-> capacity])
       /\ planeData' = Append(planeData,
                              [id |-> Len(planes) + 1, model |-> model,
                               capacity |-> capacity])
  /\ i' = i + 1
  /\ pc' = IF i + 1 < planesToCreate THEN "planeCreate" ELSE "passengers"
  /\ UNCHANGED <<airports, passengers, flights, inflight, runVars, opFailed,
                 airportVars, existingPlaneCount, planesToCreate,
                 passengerVars, batchVars, flightVars>>

\* ---------------------------------------------------------- 3) Passengers
\* lines 61-62 and the loop header of line 63
PassengerCount ==
  /\ pc = "passengers"
  /\ existingPassengerCount' = Len(passengers)
  /\ passengersToCreate' = Deficit(targets.PASSENGER_COUNT, Len(passengers))
  /\ start' = 0
  /\ pc' = IF passengersToCreate' > 0 THEN "passengerBatch" ELSE "passengerFetch"
  /\ existingPlaneCount' = 0 /\ planesToCreate' = 0 /\ i' = 0
  /\ UNCHANGED <<storeVars, inflight, runVars, opFailed, airportVars,
                 planeData, passengerIds, batchVars, flightVars>>

\* Faulty variant of EmailIndex: the offset alone, without the count of the
\* passengers already persisted.
EmailIndexWithoutExisting(existingCount, k) == k

\* line 70: the index embedded in the email of the passenger at offset k
EmailIndex(existingCount, k) == existingCount + k

\* lines 64-72: the batch for offsets from..to-1, names[k] the generated
\* first and last name of the k-th passenger of the batch
PassengerBatchData(existingCount, from, to, names) ==
  [k \in 1..(to - from) |->
     Email(names[k][1], names[k][2], EmailIndex(existingCount, from + k - 1))]

\* lines 63-75: one iteration: build the batch, createMany it (one insert of
\* the whole batch), advance start.
PassengerBatch ==
  /\ pc = "passengerBatch"
  /\ LET end == Min(passengersToCreate, start + passengerChunkSize) IN
     \E names \in [1..(end - start) -> FirstNames \X LastNames] :
       passengers' = passengers \o
         PassengerBatchData(existingPassengerCount, start, end, names)
  /\ start' = start + passengerChunkSize
  /\ pc' = IF start' < passengersToCreate THEN "passengerBatch" ELSE "passengerFetch"
  /\ UNCHANGED <<airports, planes, flights, inflight, runVars, opFailed,
                 airportVars, planeVars, i, existingPassengerCount,
                 passengersToCreate, passengerIds, batchVars, flightVars>>

\* line 76: the full re-fetch of the passenger ids
PassengerFetch ==
  /\ pc = "passengerFetch"
  /\ passengerIds' = [k \in 1..Len(passengers) |-> k]
  /\ pc' = "flights"
  /\ existingPassengerCount' = 0 /\ passengersToCreate' = 0 /\ start' = 0
  /\ UNCHANGED <<storeVars, inflight, runVars, opFailed, airportVars,
                 planeVars, i, batchVars, flightVars>>

\* ------------------------------------------------------------- 4) Flights
\* lines 82-88: count, deficit, and the headers of the two loops
FlightCount ==
  /\ pc = "flights"
  /\ existingFlightCount' = flights
  /\ flightsToCreate' = Deficit(targets.FLIGHT_COUNT, flights)
  /\ batchStart' = 0
  /\ batchEnd' = Min(flightsToCreate', flightsPerBatch)
  /\ ops' = <<>>
  /\ i' = 0
  /\ pc' = IF flightsToCreate' > 0 THEN "flightSample" ELSE "finish"
  /\ UNCHANGED <<storeVars, inflight, runVars, opFailed, airportVars,
                 planeVars, passengerVars, flightVars>>

\* lines 90-91
FlightSample ==
  /\ pc = "flightSample"
  /\ origin' \in sample(airportData, UndefinedAirport)
  /\ destination' \in sample(airportData, UndefinedAirport)
  /\ plane' = UndefinedPlane /\ pCount' = 0 /\ picked' = <<>>
  /\ pc' = "flightDest"
  /\ UNCHANGED <<storeVars, inflight, runVars, opFailed, airportVars,
                 planeVars, i, passengerVars, batchVars>>

\* Faulty variant of DestinationCollides: the destination is never resampled.
DestinationAccepted(o, d) == FALSE

\* the condition of the while loop of line 92
DestinationCollides(o, d) == d.id = o.id

\* line 92: one evaluation of the loop condition.  On an empty airport list
\* both samples are undefined and destination.id throws a TypeError.
FlightDestination ==
  /\ pc = "flightDest"
  /\ IF destination = UndefinedAirport
       THEN /\ pc' = "failed"
            /\ destination' = destination
       ELSE IF DestinationCollides(origin, destination)
         THEN /\ destination' \in sample(airportData, UndefinedAirport)
              /\ pc' = "flightDest"
         ELSE /\ destination' = destination
              /\ pc' = "flightBuild"
  /\ UNCHANGED <<storeVars, inflight, runVars, opFailed, airportVars,
                 planeVars, i, passengerVars, batchVars, origin, plane,
                 pCount, picked>>

\* line 99: the values faker.number.int({ min: 10, max: Math.min(200, capacity) })
\* can return
PassengerCounts(capacity) ==
  MinPassengersPerFlight..Min(MaxPassengersPerFlight, capacity)

\* lines 100-101: the lists the loop can build, each drawn with replacement.
\* The store does not look at the order of a connect list, so one list
\* stands for all its reorderings.
PickedLists(count, ids) ==
  {list \in [1..count -> sample(Range(ids), UndefinedId)] :
     \A k \in 1..(count - 1) : list[k] <= list[k + 1]}

\* lines 94-115: sample the plane, draw the passenger count, pick the
\* passengers and issue the create.  plane.capacity throws a TypeError on an
\* empty plane list; faker throws when max < min.  The store rejects a create
\* whose connect list holds an undefined id.
FlightBuild ==
  /\ pc = "flightBuild"
  /\ \E pl \in sample(Range(planeData), UndefinedPlane) :
       /\ plane' = pl
       /\ IF pl = UndefinedPlane \/ PassengerCounts(pl.capacity) = {}
            THEN /\ pc' = "failed"
                 /\ UNCHANGED <<pCount, picked, ops, inflight>>
            ELSE \E n \in PassengerCounts(pl.capacity) :
                 \E list \in PickedLists(n, passengerIds) :
                   /\ pCount' = n
                   /\ picked' = list
                   /\ ops' = Append(ops, "pending")
                   /\ inflight' = inflight \cup
                        {[flight |-> i,
                          valid |-> \A k \in 1..n : list[k] # UndefinedId]}
                   /\ pc' = "flightIssued"
  /\ UNCHANGED <<storeVars, runVars, opFailed, airportVars, planeVars, i,
                 passengerVars, existingFlightCount, flightsToCreate,
                 batchStart, batchEnd, origin, destination>>

\* line 88: i++ and the loop test; after the last flight of the batch the
\* script reaches the await of line 117
FlightNext ==
  /\ pc = "flightIssued"
  /\ i' = i + 1
  /\ origin' = UndefinedAirport /\ destination' = UndefinedAirport
  /\ plane' = UndefinedPlane /\ pCount' = 0 /\ picked' = <<>>
  /\ pc' = IF i + 1 < batchEnd THEN "flightSample" ELSE "flightAwait"
  /\ UNCHANGED <<storeVars, inflight, runVars, opFailed, airportVars,
                 planeVars, passengerVars, batchVars>>

\* The store answers one of the creates in flight: the row is persisted, or
\* the create is rejected (always, when its connect list is invalid).  The
\* script is single-threaded: it sees answers only while it awaits; a create
\* of a run that has failed may still be committed by the store.
FlightResolve(f, answers) ==
  /\ pc \in {"flightAwait", "failed"}
  /\ f \in inflight
  /\ \E ok \in (IF f.valid THEN answers ELSE {FALSE}) :
       /\ flights' = IF ok THEN flights + 1 ELSE flights
       /\ opFailed' = (opFailed \/ ~ok)
       /\ ops' = [k \in 1..Len(ops) |->
                    IF batchStart + k - 1 = f.flight
                      THEN (IF ok THEN "ok" ELSE "rejected")
                      ELSE ops[k]]
  /\ inflight' = inflight \ {f}
  /\ UNCHANGED <<airports, planes, passengers, runVars, pc, airportVars,
                 planeVars, i, passengerVars, existingFlightCount,
                 flightsToCreate, batchStart, batchEnd, flightVars>>

FlightSettle == \E f \in inflight : FlightResolve(f, BOOLEAN)

\* line 117: Promise.all(ops) rejects as soon as one create is rejected
FlightBatchRejected ==
  /\ pc = "flightAwait"
  /\ \E k \in 1..Len(ops) : ops[k] = "rejected"
  /\ pc' = "failed"
  /\ UNCHANGED <<storeVars, inflight, runVars, opFailed, airportVars,
                 planeVars, i, passengerVars, batchVars, flightVars>>

\* Faulty variant of AllResolved: the batch is not awaited.
ResolvedWithoutWaiting(promises) == TRUE

\* line 117: Promise.all(ops) resolves when every create has resolved
AllResolved(promises) == \A k \in 1..Len(promises) : promises[k] = "ok"

\* lines 117-119 and the loop header of lines 85-88
FlightBatchDone ==
  /\ pc = "flightAwait"
  /\ ~ \E k \in 1..Len(ops) : ops[k] = "rejected"
  /\ AllResolved(ops)
  /\ batchStart' = batchStart + flightsPerBatch
  /\ batchEnd' = Min(flightsToCreate, batchStart' + flightsPerBatch)
  /\ ops' = <<>>
  /\ i' = batchStart'
  /\ pc' = IF batchStart' < flightsToCreate THEN "flightSample" ELSE "finish"
  /\ UNCHANGED <<storeVars, inflight, runVars, opFailed, airportVars,
                 planeVars, passengerVars, existingFlightCount,
                 flightsToCreate, flightVars>>

\* lines 121-124
Finish ==
  /\ pc = "finish"
  /\ pc' = "done"
  /\ existingFlightCount' = 0 /\ flightsToCreate' = 0
  /\ batchStart' = 0 /\ batchEnd' = 0 /\ ops' = <<>> /\ i' = 0
  /\ UNCHANGED <<storeVars, inflight, runVars, opFailed, airportVars,
                 planeVars, passengerVars, flightVars>>

\* ------------------------------------------------- failures and new runs
\* The positions at which the next step of the script is an awaited call of
\* the persistence layer (findUnique is only called when the in-memory test
\* of line 33 is false).
AwaitsPersistence ==
  \/ pc \in {"airports", "airportCreate", "planes", "planeCreate",
             "passengers", "passengerBatch", "passengerFetch", "flights",
             "finish"}
  \/ pc = "airportCheck" /\ ~KnownInMemory(iata)

\* Faulty variant of AfterRejection: a rejected createMany is caught and the
\* script goes on after the batch loop.
AfterRejectionCaught(position) ==
  IF position = "passengerBatch" THEN "passengerFetch" ELSE "failed"

\* Where the script goes when an awaited call throws: nothing catches it.
AfterRejection(position) == "failed"

\* An awaited call is rejected: nothing is written by it.
PersistenceFail ==
  /\ AwaitsPersistence
  /\ pc' = AfterRejection(pc)
  /\ opFailed' = TRUE
  /\ UNCHANGED <<storeVars, inflight, runVars, airportVars, planeVars, i,
                 passengerVars, batchVars, flightVars>>

\* The script is started again against the store the last run left.
StartRun ==
  /\ pc \in {"done", "failed"}
  /\ prevDone' = (pc = "done")
  /\ pc' = "airports"
  /\ opFailed' = FALSE
  /\ inflight' = {}
  /\ airportData' = {} /\ existingAirportCount' = 0 /\ airportsToCreate' = 0
  /\ iata' = 0
  /\ planeData' = <<>> /\ existingPlaneCount' = 0 /\ planesToCreate' = 0
  /\ i' = 0
  /\ existingPassengerCount' = 0 /\ passengersToCreate' = 0 /\ start' = 0
  /\ passengerIds' = <<>>
  /\ existingFlightCount' = 0 /\ flightsToCreate' = 0
  /\ batchStart' = 0 /\ batchEnd' = 0 /\ ops' = <<>>
  /\ origin' = UndefinedAirport /\ destination' = UndefinedAirport
  /\ plane' = UndefinedPlane /\ pCount' = 0 /\ picked' = <<>>
  /\ UNCHANGED <<targets, storeVars>>

Next ==
  \/ AirportFind \/ AirportCheck \/ AirportCreate
  \/ PlaneFind \/ PlaneCreate
  \/ PassengerCount \/ PassengerBatch \/ PassengerFetch
  \/ FlightCount \/ FlightSample \/ FlightDestination \/ FlightBuild
  \/ FlightNext \/ FlightSettle \/ FlightBatchRejected \/ FlightBatchDone
  \/ Finish \/ PersistenceFail \/ StartRun

Spec == Init /\ [][Next]_vars

\* ------------------------------------- a run against a store that answers
\* The store answers every call: no awaited call is rejected, and a create
\* is rejected only when its request is invalid.  One run, from the empty
\* store.
FlightSettleAnswered == \E f \in inflight : FlightResolve(f, {TRUE})

\* The draws of the two rejection loops that leave the loop.
AirportDrawFree == AirportCheck /\ Collides(iata) /\ ~Collides(iata')
DestinationDrawDistinct ==
  FlightDestination /\ pc' = "flightDest" /\ destination'.id # origin.id

NextAnswered ==
  \/ AirportFind \/ AirportCheck \/ AirportCreate
  \/ PlaneFind \/ PlaneCreate
  \/ PassengerCount \/ PassengerBatch \/ PassengerFetch
  \/ FlightCount \/ FlightSample \/ FlightDestination \/ FlightBuild
  \/ FlightNext \/ FlightSettleAnswered \/ FlightBatchRejected
  \/ FlightBatchDone \/ Finish

\* The script runs whenever it can (weak fairness); a random draw that
\* can leave a rejection loop infinitely often eventually does (strong
\* fairness on the two draws).
LiveSpec ==
  /\ Init
  /\ [][NextAnswered]_vars
  /\ WF_vars(NextAnswered)
  /\ SF_vars(AirportDrawFree)
  /\ SF_vars(DestinationDrawDistinct)

\* ------------------------------------------------------------------ claims
IsPrefix(s, t) == Len(s) <= Len(t) /\ \A k \in 1..Len(s) : s[k] = t[k]

\* A stage that found `before` rows and has run to its end with `now` rows.
StageFilled(before, now, target) ==
  /\ now - before = Max(0, target - before)
  /\ now = Max(before, target)

\* C1: a stage that runs to its end has created exactly
\* max(0, target - rows persisted when the stage started) rows, so the count
\* afterwards is max(count before, target); a run that follows a completed
\* run creates no row of any kind.
C1_IdempotentCounts ==
  /\ pc = "planes" =>
       /\ StageFilled(existingAirportCount, Cardinality(airports),
                      targets.AIRPORT_COUNT)
       /\ prevDone => Cardinality(airports) = existingAirportCount
  /\ pc = "passengers" =>
       /\ StageFilled(existingPlaneCount, Len(planes), targets.PLANE_COUNT)
       /\ prevDone => Len(planes) = existingPlaneCount
  /\ pc = "passengerFetch" =>
       /\ StageFilled(existingPassengerCount, Len(passengers),
                      targets.PASSENGER_COUNT)
       /\ prevDone => Len(passengers) = existingPassengerCount
  /\ pc = "finish" =>
       /\ StageFilled(existingFlightCount, flights, targets.FLIGHT_COUNT)
       /\ prevDone => flights = existingFlightCount

\* C1 witness: the second of two completed runs reaches the end of the
\* flight stage against a store the first run filled with rows of every kind.
C1_Witness ==
  /\ pc = "finish" /\ prevDone
  /\ Cardinality(airports) = MaxAirportTarget /\ Len(planes) = MaxPlaneTarget
  /\ Len(passengers) = MaxPassengerTarget /\ flights = MaxFlightTarget
  /\ existingFlightCount = MaxFlightTarget

\* C2: the i-th plane created by the plane stage has the model
\* catalog[(existingCount + i) mod catalogLength], existingCount being the
\* number of planes persisted when the stage started.
C2_RoundRobinFromExisting ==
  pc \in {"planeCreate", "passengers"} =>
    \A k \in (existingPlaneCount + 1)..Len(planeData) :
      planeData[k].model =
        planeModels[((existingPlaneCount + (k - existingPlaneCount - 1))
                       % Len(planeModels)) + 1]

\* C3: the set of passengers connected to a created flight has at least 10
\* (MinPassengersPerFlight) and at most min(200, capacity) members.
C3_PassengerSetSize ==
  (pc = "flightIssued" /\ \A k \in 1..Len(picked) : picked[k] # UndefinedId) =>
    /\ Cardinality(Range(picked)) >= MinPassengersPerFlight
    /\ Cardinality(Range(picked)) <= Min(MaxPassengersPerFlight, plane.capacity)

\* C4: all persisted passenger emails are pairwise distinct, after any
\* sequence of runs from the empty store: no index is used twice.
C4_EmailsDistinct ==
  \A j, k \in 1..Len(passengers) :
    j # k => /\ passengers[j] # passengers[k]
             /\ passengers[j][3] # passengers[k][3]

\* C4 witness: a run that found the first batch of an aborted run in the
\* store has inserted the rest.
C4_Witness ==
  /\ pc = "passengerFetch"
  /\ existingPassengerCount = passengerChunkSize
  /\ Len(passengers) > passengerChunkSize

\* C5: every reference of a flight create (origin, destination, plane, each
\* entry of the connect list) is the id of a row persisted when the create
\* is issued.
C5_ReferencesPersisted ==
  pc = "flightIssued" =>
    /\ \E a \in airports : a.id = origin.id
    /\ \E a \in airports : a.id = destination.id
    /\ plane.id \in 1..Len(planes)
    /\ \A k \in 1..Len(picked) : picked[k] \in 1..Len(passengers)

\* C6: the codes of the persisted airports are pairwise distinct, the airport
\* stage issues no create whose code is known in memory or persisted, and a
\* completed run leaves at least the target number of airports.
C6_AirportCodesDistinct ==
  /\ \A a, b \in airports : a # b => a.iataCode # b.iataCode /\ a.id # b.id
  /\ pc = "airportCreate" => ~KnownInMemory(iata) /\ ~FoundInStore(iata)
  /\ pc = "done" => Cardinality(airports) >= targets.AIRPORT_COUNT

\* C6 witness: a create is issued while the store and the in-memory list
\* already hold an airport.
C6_Witness ==
  /\ pc = "airportCreate"
  /\ airports # {} /\ airportData = airports

\* C7: the origin and the destination of every flight create are different
\* airports.
C7_OriginIsNotDestination ==
  pc = "flightIssued" => origin.id # destination.id

\* C7 witness: a create is issued with two airports of the list.
C7_Witness ==
  /\ pc = "flightIssued"
  /\ origin \in airports /\ destination \in airports

\* C8: every create in flight belongs to the batch the script is in, so no
\* create of a later batch is issued before those of the batch before it have
\* resolved, and at most flightsPerBatch creates are in flight.
C8_BatchesSequential ==
  /\ Cardinality(inflight) <= flightsPerBatch
  /\ \A f \in inflight : batchStart <= f.flight /\ f.flight < batchEnd

\* C8 witness: the first create of the second batch is in flight, the first
\* batch having been a full one.
C8_Witness ==
  /\ pc = "flightIssued"
  /\ batchStart = flightsPerBatch
  /\ inflight # {}

\* The steps of one run (StartRun begins another).
SameRun == ~(pc \in {"done", "failed"} /\ pc' = "airports")

\* C9: once a persistence call of a run has been rejected the run can only
\* go to its failed state: it starts no stage, no batch and no create; and no
\* step removes or changes a persisted row.
C9_FailureIsFatal ==
  /\ [](opFailed => pc \in {"failed", "flightAwait"})
  /\ [][(opFailed' /\ SameRun) =>
          /\ pc' \in {pc, "failed"}
          /\ inflight' \subseteq inflight
          /\ batchStart' = batchStart /\ start' = start /\ i' = i]_vars
  /\ [][/\ airports \subseteq airports'
        /\ IsPrefix(planes, planes')
        /\ IsPrefix(passengers, passengers')
        /\ flights' >= flights]_vars

\* C9 witness: the second passenger batch has been rejected; the first one
\* is still persisted, with the airports and planes created before it.
C9_Witness ==
  /\ pc = "failed" /\ opFailed
  /\ start = passengerChunkSize /\ passengersToCreate > passengerChunkSize
  /\ Len(passengers) = existingPassengerCount + passengerChunkSize
  /\ airports # {} /\ Len(planes) >= 1

\* C10: when the flight stage starts with at least 2 airports, a fair run
\* against a store that answers every call reaches its finished state.
C10_RunFinishes ==
  (pc = "flights" /\ Cardinality(airportData) >= 2) ~> (pc = "done")
====
